---- MODULE Spec2Model ----
(***************************************************************************)
(* Retrieval subsystem of the legal assistant:                             *)
(*   tools/legal_precedent_search_tool.py  (precedent search, citations)   *)
(*   tools/ipc_sections_search_tool.py     (statute search over the index) *)
(*   database/chroma_db/setup_vector_db.py (index builder)                 *)
(* Python strings are modelled as sequences of one-character strings, so   *)
(* that substring tests, lower-casing and regular-expression search are    *)
(* computed character by character as the code computes them.              *)
(***************************************************************************)
EXTENDS Integers, Sequences, FiniteSets, TLC

VARIABLES
    spc,        \* position of the precedent-tool caller: "idle", "awaiting", "returned"
    call,       \* arguments of the precedent call in progress (NoCall when idle)
    request,    \* the client.search request of the call in progress and how it was
                \* answered (NoRequest when none was sent)
    requests,   \* number of client.search requests issued by the call in progress
    raw_seen,   \* response.get("results", []) of the call in progress
    ret,        \* what the call returned / raised (NoRet before it ends)
    cit,        \* citation extraction: inputs and result (NoCit when not run)
    dirExists,  \* os.path.exists(persist_directory)
    coll,       \* the persisted collection: NoColl, or its documents in insertion order
                \* ([present |-> TRUE, docs |-> ...])
    bpc,        \* position of the index builder
    bdocs,      \* documents argument of the running create_vector_db
    breset,     \* reset argument of the running build
    badded,     \* number of documents of bdocs already written
    bold,       \* the index as it was when the running build started
    bprev,      \* documents and resulting size of the previous completed reset build
    bout,       \* how the last setup()/create_vector_db ended
    rd          \* last search_ipc_sections call: when it ran, what it saw, what it returned

vars == <<spc, call, request, requests, raw_seen, ret, cit,
          dirExists, coll, bpc, bdocs, breset, badded, bold, bprev, bout, rd>>

precedentVars == <<spc, call, request, requests, raw_seen, ret>>
indexVars == <<dirExists, coll, bpc, bdocs, breset, badded, bold, bprev, bout, rd>>

-----------------------------------------------------------------------------
(* Bounds of the model *)

\* longest upstream response (number of raw results)
MaxRaw == 3
\* largest max_results argument tried (0 is tried too)
MaxResults == 3
\* longest corpus handed to the builder
MaxCorpus == 2
\* most documents the persisted collection may hold (caps appending builds)
MaxIndex == 3
\* largest top_k argument of the statute search
MaxTopK == 2
\* documents written by one collection write of Chroma.from_documents
MaxBatch == 1

-----------------------------------------------------------------------------
(* Strings *)

UpperChars ==
    <<"A", "B", "C", "D", "E", "F", "G", "H", "I", "J", "K", "L", "M",
      "N", "O", "P", "Q", "R", "S", "T", "U", "V", "W", "X", "Y", "Z">>
LowerChars ==
    <<"a", "b", "c", "d", "e", "f", "g", "h", "i", "j", "k", "l", "m",
      "n", "o", "p", "q", "r", "s", "t", "u", "v", "w", "x", "y", "z">>
DigitChars == {"0", "1", "2", "3", "4", "5", "6", "7", "8", "9"}
SpaceChars == {" "}

\* str.lower() on one character
lower_char(c) ==
    IF \E i \in 1..26 : UpperChars[i] = c
    THEN LowerChars[CHOOSE i \in 1..26 : UpperChars[i] = c]
    ELSE c

\* str.lower()
lower(s) == [i \in 1..Len(s) |-> lower_char(s[i])]

\* Python's  sub in s  on strings
contains(s, sub) ==
    \E i \in 1..(Len(s) - Len(sub) + 1) : SubSeq(s, i, i + Len(sub) - 1) = sub

\* s[:n] for n >= 0
take(s, n) == SubSeq(s, 1, IF n < Len(s) THEN n ELSE Len(s))

-----------------------------------------------------------------------------
(* Trusted Indian legal domains: LEGAL_SOURCES *)

\* "indiankanoon.org"
D_indiankanoon ==
    <<"i", "n", "d", "i", "a", "n", "k", "a", "n", "o", "o", "n", ".", "o", "r", "g">>
\* "sci.gov.in"
D_sci ==
    <<"s", "c", "i", ".", "g", "o", "v", ".", "i", "n">>
\* "judgments.ecourts.gov.in"
D_judgments ==
    <<"j", "u", "d", "g", "m", "e", "n", "t", "s", ".", "e", "c", "o", "u", "r", "t", "s", ".", "g", "o", "v", ".", "i", "n">>
\* "hcservices.ecourts.gov.in"
D_hcservices ==
    <<"h", "c", "s", "e", "r", "v", "i", "c", "e", "s", ".", "e", "c", "o", "u", "r", "t", "s", ".", "g", "o", "v", ".", "i", "n">>
\* "lawmin.gov.in"
D_lawmin ==
    <<"l", "a", "w", "m", "i", "n", ".", "g", "o", "v", ".", "i", "n">>
\* "legislative.gov.in"
D_legislative ==
    <<"l", "e", "g", "i", "s", "l", "a", "t", "i", "v", "e", ".", "g", "o", "v", ".", "i", "n">>
\* "legalserviceindia.com"
D_legalserviceindia ==
    <<"l", "e", "g", "a", "l", "s", "e", "r", "v", "i", "c", "e", "i", "n", "d", "i", "a", ".", "c", "o", "m">>
\* "casemine.com"
D_casemine ==
    <<"c", "a", "s", "e", "m", "i", "n", "e", ".", "c", "o", "m">>
\* "manupatra.com"
D_manupatra ==
    <<"m", "a", "n", "u", "p", "a", "t", "r", "a", ".", "c", "o", "m">>
\* "scconline.com"
D_scconline ==
    <<"s", "c", "c", "o", "n", "l", "i", "n", "e", ".", "c", "o", "m">>

LEGAL_SOURCES ==
    <<D_indiankanoon, D_sci, D_judgments, D_hcservices, D_lawmin,
      D_legislative, D_legalserviceindia, D_casemine, D_manupatra, D_scconline>>

\* "Unknown", the fallback of the source lookup
Unknown ==
    <<"U", "n", "k", "n", "o", "w", "n">>

\* _is_legal_source(url): any(domain in url.lower() for domain in LEGAL_SOURCES)
_is_legal_source(url) ==
    /\ url # <<>>
    /\ \E i \in 1..Len(LEGAL_SOURCES) : contains(lower(url), LEGAL_SOURCES[i])

\* next((domain for domain in LEGAL_SOURCES if domain in url), "Unknown")
source_of(url) ==
    LET hits == {i \in 1..Len(LEGAL_SOURCES) : contains(url, LEGAL_SOURCES[i])}
    IN  IF hits = {} THEN Unknown
        ELSE LEGAL_SOURCES[CHOOSE i \in hits : \A j \in hits : i <= j]

-----------------------------------------------------------------------------
(* Regular expressions: re.search(pattern, text, re.IGNORECASE)            *)
(* A pattern is a sequence of elements; an element is a character class    *)
(* with a quantifier: "1" (exactly one), "*" or "+" (greedy).              *)

\* Python's None (no sequence of characters equals it)
NoMatch == <<"None">>

Lit(c) == [cls |-> "lit", ch |-> c, q |-> "1"]
\* \d
Dig == [cls |-> "d", ch |-> "", q |-> "1"]
\* \d+
Digs == [cls |-> "d", ch |-> "", q |-> "+"]
\* \s*
Sp == [cls |-> "s", ch |-> "", q |-> "*"]
\* \w+
Words == [cls |-> "w", ch |-> "", q |-> "+"]

is_word_char(c) ==
    \/ c \in DigitChars
    \/ c = "_"
    \/ \E i \in 1..26 : c = UpperChars[i] \/ c = LowerChars[i]

\* does character c belong to the class of element e (ignoring case)
in_class(c, e) ==
    CASE e.cls = "lit" -> lower_char(c) = lower_char(e.ch)
      [] e.cls = "d" -> c \in DigitChars
      [] e.cls = "s" -> c \in SpaceChars
      [] e.cls = "w" -> is_word_char(c)

\* number of consecutive characters of text from pos on that belong to e
RECURSIVE run_length(_, _, _)
run_length(text, pos, e) ==
    IF pos <= Len(text) /\ in_class(text[pos], e)
    THEN 1 + run_length(text, pos + 1, e)
    ELSE 0

\* Backtracking match of pat[k..] at text[pos..]: the position after the
\* match that the engine finds first (greedy quantifiers give up one
\* character at a time), or 0 when there is none.
RECURSIVE match_at(_, _, _, _)
RECURSIVE match_rep(_, _, _, _, _, _)
match_at(pat, k, text, pos) ==
    IF k > Len(pat) THEN pos
    ELSE IF pat[k].q = "1"
         THEN IF pos <= Len(text) /\ in_class(text[pos], pat[k])
              THEN match_at(pat, k + 1, text, pos + 1)
              ELSE 0
         ELSE match_rep(pat, k, text, pos, run_length(text, pos, pat[k]),
                        IF pat[k].q = "+" THEN 1 ELSE 0)
match_rep(pat, k, text, pos, n, least) ==
    IF n < least THEN 0
    ELSE LET r == match_at(pat, k + 1, text, pos + n)
         IN  IF r # 0 THEN r ELSE match_rep(pat, k, text, pos, n - 1, least)

\* re.search(pat, text, re.IGNORECASE): the leftmost match, as match.group(),
\* or NoMatch
re_search(pat, text) ==
    LET starts == {s \in 1..(Len(text) + 1) : match_at(pat, 1, text, s) # 0}
    IN  IF starts = {} THEN NoMatch
        ELSE LET s == CHOOSE x \in starts : \A y \in starts : x <= y
             IN  SubSeq(text, s, match_at(pat, 1, text, s) - 1)

\* r'\(\d{4}\)\s*\d+\s*SCC\s*\d+'
PatScc ==
    <<Lit("("), Dig, Dig, Dig, Dig, Lit(")"), Sp, Digs, Sp,
      Lit("S"), Lit("C"), Lit("C"), Sp, Digs>>
\* r'AIR\s*\d{4}\s*SC\s*\d+'
PatAir ==
    <<Lit("A"), Lit("I"), Lit("R"), Sp, Dig, Dig, Dig, Dig, Sp,
      Lit("S"), Lit("C"), Sp, Digs>>
\* r'\d{4}\s*\(\d+\)\s*\w+\s*\d+'
PatYearVol ==
    <<Dig, Dig, Dig, Dig, Sp, Lit("("), Digs, Lit(")"), Sp, Words, Sp, Digs>>
\* r'W\.P\.\s*No\.\s*\d+\s*of\s*\d{4}'
PatWp ==
    <<Lit("W"), Lit("."), Lit("P"), Lit("."), Sp, Lit("N"), Lit("o"), Lit("."),
      Sp, Digs, Sp, Lit("o"), Lit("f"), Sp, Dig, Dig, Dig, Dig>>

\* patterns with a plausible slip: the AIR pattern is tried before the SCC pattern
patterns_air_first == <<PatAir, PatScc, PatYearVol, PatWp>>

\* patterns, in the order of the list in _extract_case_citation
patterns == <<PatScc, PatAir, PatYearVol, PatWp>>

\* the loop of _extract_case_citation from pattern i on
RECURSIVE extract_from(_, _)
extract_from(i, text) ==
    IF i > Len(patterns) THEN NoMatch
    ELSE LET m == re_search(patterns[i], text)
         IN  IF m # NoMatch THEN m ELSE extract_from(i + 1, text)

\* _extract_case_citation(text): Optional[str]
_extract_case_citation(text) == extract_from(1, text)

\* Python truthiness of an Optional[str]
truthy(v) == v # NoMatch /\ v # <<>>

\* _extract_case_citation(title) or _extract_case_citation(content)
citation_of(title, content) ==
    IF truthy(_extract_case_citation(title))
    THEN _extract_case_citation(title)
    ELSE _extract_case_citation(content)

-----------------------------------------------------------------------------
(* Upstream responses: the values the search provider may answer with *)

\* "https://indiankanoon.org/doc/1"
UrlKanoon ==
    <<"h", "t", "t", "p", "s", ":", "/", "/", "i", "n", "d", "i", "a", "n", "k", "a", "n", "o", "o", "n", ".", "o", "r", "g", "/", "d", "o", "c", "/", "1">>
\* "https://sci.gov.in/j/2"
UrlSci ==
    <<"h", "t", "t", "p", "s", ":", "/", "/", "s", "c", "i", ".", "g", "o", "v", ".", "i", "n", "/", "j", "/", "2">>
\* "https://SCI.GOV.IN/j/3"
UrlSciUpper ==
    <<"h", "t", "t", "p", "s", ":", "/", "/", "S", "C", "I", ".", "G", "O", "V", ".", "I", "N", "/", "j", "/", "3">>
\* "https://evil.example/?q=sci.gov.in"
UrlQuery ==
    <<"h", "t", "t", "p", "s", ":", "/", "/", "e", "v", "i", "l", ".", "e", "x", "a", "m", "p", "l", "e", "/", "?", "q", "=", "s", "c", "i", ".", "g", "o", "v", ".", "i", "n">>
\* "https://evil.example/p"
UrlEvil ==
    <<"h", "t", "t", "p", "s", ":", "/", "/", "e", "v", "i", "l", ".", "e", "x", "a", "m", "p", "l", "e", "/", "p">>
\* item.get("url", "") of an item without a url
UrlNone == <<>>

Urls == {UrlKanoon, UrlSci, UrlSciUpper, UrlQuery, UrlEvil, UrlNone}
CourtUrls == {UrlSci, UrlQuery, UrlEvil}

\* "State v A (2023) 4 SCC 221"
TitleA ==
    <<"S", "t", "a", "t", "e", " ", "v", " ", "A", " ", "(", "2", "0", "2", "3", ")", " ", "4", " ", "S", "C", "C", " ", "2", "2", "1">>
\* "state v a"
TitleB ==
    <<"s", "t", "a", "t", "e", " ", "v", " ", "a">>
Titles == {TitleA, TitleB}

\* "see AIR 2024 SC 12"
ContentA ==
    <<"s", "e", "e", " ", "A", "I", "R", " ", "2", "0", "2", "4", " ", "S", "C", " ", "1", "2">>
Contents == {ContentA}

Scores == {5, 9}

\* raw results answered to search_legal_precedents
PrecedentItems == [url : Urls, title : Titles, content : Contents, score : {9}]
\* raw results answered to search_by_court
CourtItems == [url : CourtUrls, title : Titles, content : Contents, score : Scores]

SeqsUpTo(S, n) == UNION {[1..k -> S] : k \in 0..n}

\* the responses the provider may give to either search
PrecedentResponses == SeqsUpTo(PrecedentItems, MaxRaw)
CourtResponses == SeqsUpTo(CourtItems, MaxRaw)

\* The string operations below are evaluated once per value of the finite
\* input sets and looked up afterwards.
LegalSourceTable == [u \in Urls |-> _is_legal_source(u)]
SourceTable == [u \in Urls |-> source_of(u)]
CitationTable == [t \in Titles, c \in Contents |-> citation_of(t, c)]

-----------------------------------------------------------------------------
(* search_legal_precedents *)

NoCall == [op |-> "none"]
NoRequest == [sent |-> FALSE, answer |-> "none"]
NoRet == [kind |-> "none"]

\* the messages the tool returns (without the leading cross mark)
MsgNoKey == "Error: 'TAVILY_API_KEY' not found in .env file"
MsgUpstream == "Error searching legal precedents: "
MsgNone == "No relevant legal precedents found from trusted Indian legal sources."
MsgFound == "Found N relevant legal precedent(s):"

\* the length the summary is cut to
SummaryLimit == 500

\* the dictionary appended to legal_results for a kept item
precedent_entry(item) ==
    [title |-> item.title,
     citation |-> CitationTable[item.title, item.content],
     summary |-> take(item.content, SummaryLimit),
     url |-> item.url,
     source |-> SourceTable[item.url]]

\* title in seen_titles
title_seen(title, seen_titles) == title \in seen_titles

\* len(legal_results) >= max_results
limit_reached(legal_results, max_results) == Len(legal_results) >= max_results

\* The filtering loop over raw_results from item i on, with the
\* accumulators legal_results and seen_titles.
RECURSIVE precedent_loop(_, _, _, _, _)
precedent_loop(raw_results, i, legal_results, seen_titles, max_results) ==
    IF i > Len(raw_results) THEN legal_results
    ELSE LET item == raw_results[i]
         IN  IF ~LegalSourceTable[item.url]
             THEN precedent_loop(raw_results, i + 1, legal_results,
                                 seen_titles, max_results)
             ELSE IF title_seen(item.title, seen_titles)
             THEN precedent_loop(raw_results, i + 1, legal_results,
                                 seen_titles, max_results)
             ELSE LET grown == Append(legal_results, precedent_entry(item))
                  IN  IF limit_reached(grown, max_results)
                      THEN grown
                      ELSE precedent_loop(raw_results, i + 1, grown,
                                          seen_titles \cup {item.title},
                                          max_results)

\* the except branch with a plausible slip: a provider failure reads as "no results"
upstream_failure_as_no_results ==
    [kind |-> "text", msg |-> MsgNone, results |-> <<>>]

\* except Exception as e: return f"... Error searching legal precedents: {str(e)}"
upstream_failure_return ==
    [kind |-> "text", msg |-> MsgUpstream, results |-> <<>>]

\* what search_legal_precedents returns for the response raw_results
precedent_return(raw_results, max_results) ==
    LET legal_results == precedent_loop(raw_results, 1, <<>>, {}, max_results)
    IN  IF legal_results = <<>>
        THEN [kind |-> "text", msg |-> MsgNone, results |-> <<>>]
        ELSE [kind |-> "text", msg |-> MsgFound, results |-> legal_results]

\* search_legal_precedents up to client.search: the credential check, then
\* one request for max_results * 2 results
CallSearchLegalPrecedents(has_key, max_results) ==
    /\ spc = "idle"
    /\ call' = [op |-> "search_legal_precedents", max_results |-> max_results,
                court_level |-> "all", has_key |-> has_key]
    /\ raw_seen' = <<>>
    /\ IF ~has_key
       THEN /\ ret' = [kind |-> "text", msg |-> MsgNoKey, results |-> <<>>]
            /\ spc' = "returned"
            /\ UNCHANGED <<request, requests>>
       ELSE /\ request' = [sent |-> TRUE, answer |-> "pending",
                           max_results |-> max_results * 2,
                           search_depth |-> "advanced",
                           site_domains |-> take(LEGAL_SOURCES, 3),
                           include_domains |-> LEGAL_SOURCES]
            /\ requests' = requests + 1
            /\ ret' = NoRet
            /\ spc' = "awaiting"
    /\ UNCHANGED <<cit, indexVars>>

\* client.search raises: the except branch of search_legal_precedents
PrecedentProviderFails ==
    /\ spc = "awaiting"
    /\ call.op = "search_legal_precedents"
    /\ ret' = upstream_failure_return
    /\ spc' = "returned"
    /\ request' = [request EXCEPT !.answer = "raised"]
    /\ UNCHANGED <<call, requests, raw_seen, cit, indexVars>>

\* client.search answers: the rest of search_legal_precedents
PrecedentProviderResponds ==
    /\ spc = "awaiting"
    /\ call.op = "search_legal_precedents"
    /\ \E raw_results \in PrecedentResponses :
          /\ raw_seen' = raw_results
          /\ ret' = precedent_return(raw_results, call.max_results)
    /\ spc' = "returned"
    /\ request' = [request EXCEPT !.answer = "results"]
    /\ UNCHANGED <<call, requests, cit, indexVars>>

-----------------------------------------------------------------------------
(* LegalPrecedentSearcher.search_by_court *)

\* "indiankanoon.org/search/?formInput=doctypes:sc"
D_kanoon_sc ==
    <<"i", "n", "d", "i", "a", "n", "k", "a", "n", "o", "o", "n", ".", "o", "r", "g", "/", "s", "e", "a", "r", "c", "h", "/", "?", "f", "o", "r", "m", "I", "n", "p", "u", "t", "=", "d", "o", "c", "t", "y", "p", "e", "s", ":", "s", "c">>
\* "indiankanoon.org/search/?formInput=doctypes:hc"
D_kanoon_hc ==
    <<"i", "n", "d", "i", "a", "n", "k", "a", "n", "o", "o", "n", ".", "o", "r", "g", "/", "s", "e", "a", "r", "c", "h", "/", "?", "f", "o", "r", "m", "I", "n", "p", "u", "t", "=", "d", "o", "c", "t", "y", "p", "e", "s", ":", "h", "c">>

CourtLevels == {"supreme", "high", "district", "all"}

\* court_domains.get(court_level, LEGAL_SOURCES)
court_domains(court_level) ==
    CASE court_level = "supreme" -> <<D_sci, D_kanoon_sc>>
      [] court_level = "high" -> <<D_hcservices, D_kanoon_hc>>
      [] court_level = "district" -> <<D_judgments>>
      [] OTHER -> LEGAL_SOURCES

\* the dictionary appended to results for a kept item
court_entry(item, court_level) ==
    [title |-> item.title,
     summary |-> item.content,
     url |-> item.url,
     court_level |-> court_level,
     relevance_score |-> item.score]

\* if _is_legal_source(item.get("url", ""))
court_keep(item) == LegalSourceTable[item.url]

\* the loop over response.get("results", []) from item i on
RECURSIVE court_loop(_, _, _, _)
court_loop(raw_results, i, results, court_level) ==
    IF i > Len(raw_results) THEN results
    ELSE court_loop(raw_results, i + 1,
                    IF court_keep(raw_results[i])
                    THEN Append(results, court_entry(raw_results[i], court_level))
                    ELSE results,
                    court_level)

\* return results[:max_results]
court_return(raw_results, court_level, max_results) ==
    [kind |-> "list",
     results |-> take(court_loop(raw_results, 1, <<>>, court_level), max_results)]

\* LegalPrecedentSearcher() and search_by_court up to self.client.search
CallSearchByCourt(has_key, court_level, max_results) ==
    /\ spc = "idle"
    /\ call' = [op |-> "search_by_court", max_results |-> max_results,
                court_level |-> court_level, has_key |-> has_key]
    /\ raw_seen' = <<>>
    /\ IF ~has_key
       THEN /\ ret' = [kind |-> "raised", exc |-> "ValueError"]
            /\ spc' = "returned"
            /\ UNCHANGED <<request, requests>>
       ELSE /\ request' = [sent |-> TRUE, answer |-> "pending",
                           max_results |-> max_results * 2,
                           search_depth |-> "advanced",
                           site_domains |-> take(court_domains(court_level), 3),
                           include_domains |-> <<>>]
            /\ requests' = requests + 1
            /\ ret' = NoRet
            /\ spc' = "awaiting"
    /\ UNCHANGED <<cit, indexVars>>

\* self.client.search raises: search_by_court has no handler, the caller gets it
CourtProviderFails ==
    /\ spc = "awaiting"
    /\ call.op = "search_by_court"
    /\ ret' = [kind |-> "raised", exc |-> "provider"]
    /\ spc' = "returned"
    /\ request' = [request EXCEPT !.answer = "raised"]
    /\ UNCHANGED <<call, requests, raw_seen, cit, indexVars>>

\* self.client.search answers: the rest of search_by_court
CourtProviderResponds ==
    /\ spc = "awaiting"
    /\ call.op = "search_by_court"
    /\ \E raw_results \in CourtResponses :
          /\ raw_seen' = raw_results
          /\ ret' = court_return(raw_results, call.court_level, call.max_results)
    /\ spc' = "returned"
    /\ request' = [request EXCEPT !.answer = "results"]
    /\ UNCHANGED <<call, requests, cit, indexVars>>

\* the caller takes the result; the tools keep nothing between calls
PrecedentCallEnds ==
    /\ spc = "returned"
    /\ spc' = "idle"
    /\ call' = NoCall
    /\ request' = NoRequest
    /\ requests' = 0
    /\ raw_seen' = <<>>
    /\ ret' = NoRet
    /\ UNCHANGED <<cit, indexVars>>

-----------------------------------------------------------------------------
(* Citation extraction on its own: the inputs it is applied to *)

\* "Ref: (2023) 4 SCC 221"
TxtRef ==
    <<"R", "e", "f", ":", " ", "(", "2", "0", "2", "3", ")", " ", "4", " ", "S", "C", "C", " ", "2", "2", "1">>
\* "AIR 2024 SC 123"
TxtAir ==
    <<"A", "I", "R", " ", "2", "0", "2", "4", " ", "S", "C", " ", "1", "2", "3">>
\* "air 2024 sc 7"
TxtAirLower ==
    <<"a", "i", "r", " ", "2", "0", "2", "4", " ", "s", "c", " ", "7">>
\* "(1999) 2 scc 5"
TxtSccLower ==
    <<"(", "1", "9", "9", "9", ")", " ", "2", " ", "s", "c", "c", " ", "5">>
\* "AIR 2024 SC 9; (2024) 5 SCC 8"
TxtAirThenScc ==
    <<"A", "I", "R", " ", "2", "0", "2", "4", " ", "S", "C", " ", "9", ";", " ", "(", "2", "0", "2", "4", ")", " ", "5", " ", "S", "C", "C", " ", "8">>
\* "2024 (5) ALT 123"
TxtAlt ==
    <<"2", "0", "2", "4", " ", "(", "5", ")", " ", "A", "L", "T", " ", "1", "2", "3">>
\* "2024 (5) 123"
TxtDigits ==
    <<"2", "0", "2", "4", " ", "(", "5", ")", " ", "1", "2", "3">>
\* "W.P. No. 12 of 2024"
TxtWp ==
    <<"W", ".", "P", ".", " ", "N", "o", ".", " ", "1", "2", " ", "o", "f", " ", "2", "0", "2", "4">>
\* "W.P. No. 1 of 2020, 2021 (3) BLR 4"
TxtWpThenAlt ==
    <<"W", ".", "P", ".", " ", "N", "o", ".", " ", "1", " ", "o", "f", " ", "2", "0", "2", "0", ",", " ", "2", "0", "2", "1", " ", "(", "3", ")", " ", "B", "L", "R", " ", "4">>
\* "held in AIR 1950 SC 27"
TxtAirInContent ==
    <<"h", "e", "l", "d", " ", "i", "n", " ", "A", "I", "R", " ", "1", "9", "5", "0", " ", "S", "C", " ", "2", "7">>
\* "State of X v Y"
TxtNone ==
    <<"S", "t", "a", "t", "e", " ", "o", "f", " ", "X", " ", "v", " ", "Y">>
TxtEmpty == <<>>

Texts ==
    {TxtRef, TxtAir, TxtAirLower, TxtSccLower, TxtAirThenScc, TxtAlt, TxtDigits,
     TxtWp, TxtWpThenAlt, TxtAirInContent, TxtNone, TxtEmpty}

NoCit == [ran |-> FALSE]

\* line 124 of search_legal_precedents applied to one title and content
ExtractCitation(title, content) ==
    /\ cit = NoCit
    /\ cit' = [ran |-> TRUE, title |-> title, content |-> content,
               citation |-> citation_of(title, content)]
    /\ UNCHANGED <<precedentVars, indexVars>>

CitationTaken ==
    /\ cit # NoCit
    /\ cit' = NoCit
    /\ UNCHANGED <<precedentVars, indexVars>>

-----------------------------------------------------------------------------
(* The persisted vector index and its builder, IPCVectorDBSetup *)

\* the Section values of the corpus records
Sections == {"302", "379"}

\* a corpus: the records of the IPC JSON file, at least one
Corpora == SeqsUpTo(Sections, MaxCorpus) \ {<<>>}

\* no collection under the persist directory
NoColl == [present |-> FALSE, docs |-> <<>>]

\* load_ipc_data(): the file is read and parsed, then the print of line 48
\* evaluates len(ipc_data), a name that is not bound in the method
load_ipc_data(file_state, corpus) ==
    CASE file_state = "absent" -> [raised |-> "FileNotFoundError", data |-> <<>>]
      [] file_state = "malformed" -> [raised |-> "JSONDecodeError", data |-> <<>>]
      [] OTHER -> [raised |-> "NameError", data |-> <<>>]

\* prepare_documents(): one Document per record, in order; the Document
\* is identified here by its section metadata
prepare_documents(ipc_data) ==
    [i \in 1..Len(ipc_data) |-> [section |-> ipc_data[i]]]

DocumentLists == {prepare_documents(c) : c \in Corpora}

\* the reset with a plausible slip: the existing database is kept
storage_after_reset_kept(reset, exists, collection) ==
    [exists |-> exists, coll |-> collection]

\* if reset and os.path.exists(self.persist_directory): shutil.rmtree(...)
storage_after_reset(reset, exists, collection) ==
    IF reset /\ exists
    THEN [exists |-> FALSE, coll |-> NoColl]
    ELSE [exists |-> exists, coll |-> collection]

\* number of documents the persisted collection holds
index_size == Len(coll.docs)

BuilderIdle == [op |-> "none", ended |-> "none"]
NoPrev == [set |-> FALSE]
NoRead == [ran |-> FALSE]

\* create_vector_db(documents, reset) is entered
StartCreateVectorDb(documents, reset) ==
    /\ bpc' = "reset"
    /\ bdocs' = documents
    /\ breset' = reset
    /\ badded' = 0
    /\ bold' = [exists |-> dirExists, coll |-> coll]
    /\ bout' = [op |-> "create_vector_db", ended |-> "running"]

\* setup(reset): load_ipc_data, prepare_documents, then create_vector_db;
\* an exception is printed and raised again
Setup(reset, file_state, corpus) ==
    /\ bpc = "idle"
    /\ rd = NoRead
    /\ LET loaded == load_ipc_data(file_state, corpus)
       IN  IF loaded.raised # "none"
           THEN /\ bout' = [op |-> "setup", ended |-> loaded.raised]
                /\ UNCHANGED <<bpc, bdocs, breset, badded, bold>>
           ELSE /\ reset \/ index_size + Len(loaded.data) <= MaxIndex
                /\ StartCreateVectorDb(prepare_documents(loaded.data), reset)
    /\ UNCHANGED <<precedentVars, cit, dirExists, coll, bprev, rd>>

\* create_vector_db(documents, reset) called on an IPCVectorDBSetup
CallCreateVectorDb(documents, reset) ==
    /\ bpc = "idle"
    /\ rd = NoRead
    /\ reset \/ index_size + Len(documents) <= MaxIndex
    /\ StartCreateVectorDb(documents, reset)
    /\ UNCHANGED <<precedentVars, cit, dirExists, coll, bprev, rd>>

\* lines 93-95: the reset
CvdbReset ==
    /\ bpc = "reset"
    /\ rd = NoRead
    /\ LET after == storage_after_reset(breset, dirExists, coll)
       IN  /\ dirExists' = after.exists
           /\ coll' = after.coll
    /\ bpc' = "client"
    /\ UNCHANGED <<precedentVars, cit, bdocs, breset, badded, bold, bprev, bout, rd>>

\* Chroma.from_documents, first part: the persistent client creates the directory
CvdbClient ==
    /\ bpc = "client"
    /\ rd = NoRead
    /\ dirExists' = TRUE
    /\ bpc' = "collection"
    /\ UNCHANGED <<precedentVars, cit, coll, bdocs, breset, badded, bold, bprev, bout, rd>>

\* Chroma.from_documents, second part: the collection is got or created
CvdbCollection ==
    /\ bpc = "collection"
    /\ rd = NoRead
    /\ coll' = [present |-> TRUE, docs |-> coll.docs]
    /\ bpc' = "add"
    /\ UNCHANGED <<precedentVars, cit, dirExists, bdocs, breset, badded, bold, bprev, bout, rd>>

\* Chroma.from_documents, third part: the documents are written, each under
\* a fresh id, one batch per write
CvdbAdd ==
    /\ bpc = "add"
    /\ rd = NoRead
    /\ LET upto == IF badded + MaxBatch < Len(bdocs)
                   THEN badded + MaxBatch ELSE Len(bdocs)
       IN  /\ coll' = [present |-> TRUE,
                       docs |-> coll.docs \o SubSeq(bdocs, badded + 1, upto)]
           /\ badded' = upto
           /\ bpc' = IF upto = Len(bdocs) THEN "done" ELSE "add"
    /\ UNCHANGED <<precedentVars, cit, dirExists, bdocs, breset, bold, bprev, bout, rd>>

\* lines 107-108: create_vector_db returns
CvdbReturn ==
    /\ bpc = "done"
    /\ rd = NoRead
    /\ bpc' = "idle"
    /\ bout' = [op |-> bout.op, ended |-> "returned"]
    /\ bprev' = IF breset
                THEN [set |-> TRUE, docs |-> bdocs, size |-> index_size]
                ELSE bprev
    /\ UNCHANGED <<precedentVars, cit, dirExists, coll, bdocs, breset, badded, bold, rd>>

\* the builder process dies between two of its steps
BuilderCrashes ==
    /\ bpc \in {"client", "collection", "add"}
    /\ rd = NoRead
    /\ bpc' = "idle"
    /\ bout' = [op |-> bout.op, ended |-> "crashed"]
    /\ UNCHANGED <<precedentVars, cit, dirExists, coll, bdocs, breset, badded, bold, bprev, rd>>

-----------------------------------------------------------------------------
(* search_ipc_sections *)

MsgNoSetting == "Error: 'PERSIST_DIRECTORY_PATH' is not set in .env file"
MsgNoDatabase == "Error: Vector database not found. Please run setup first."
MsgNoSections == "No relevant IPC sections found for the given query."
MsgSections == "Result 1.."

\* Chroma(collection_name, persist_directory, ...): the collection is got,
\* or created empty when the directory holds none
opened_collection(collection) == [present |-> TRUE, docs |-> collection.docs]

\* vector_db.similarity_search(query, k=top_k): at most top_k documents
\* (their ranking by distance is not modelled: insertion order stands in)
similarity_search(collection, top_k) == take(collection.docs, top_k)

\* search_ipc_sections(query, top_k), run at one instant
SearchIpcSections(has_setting, top_k) ==
    /\ rd = NoRead
    /\ LET when == [during |-> bpc, ended |-> bout.ended, reset |-> breset,
                     old |-> bold, new |-> bdocs,
                     store |-> [exists |-> dirExists, coll |-> coll]]
       IN  IF ~has_setting
           THEN /\ rd' = [ran |-> TRUE, opened |-> FALSE, when |-> when,
                          msg |-> MsgNoSetting, docs |-> <<>>]
                /\ coll' = coll
           ELSE IF ~dirExists
           THEN /\ rd' = [ran |-> TRUE, opened |-> FALSE, when |-> when,
                          msg |-> MsgNoDatabase, docs |-> <<>>]
                /\ coll' = coll
           ELSE LET docs == similarity_search(opened_collection(coll), top_k)
                IN  /\ rd' = [ran |-> TRUE, opened |-> TRUE, when |-> when,
                              saw |-> opened_collection(coll),
                              msg |-> IF docs = <<>> THEN MsgNoSections
                                      ELSE MsgSections,
                              docs |-> docs]
                    /\ coll' = opened_collection(coll)
    /\ UNCHANGED <<precedentVars, cit, dirExists, bpc, bdocs, breset, badded,
                   bold, bprev, bout>>

\* ValueError raised by IPCSectionSearcher._initialize
MsgSearcherNoDatabase == "ValueError: Vector database not found. Please run setup first."
\* IPCSectionSearcher.search returned its list (empty or not)
MsgSearcherList == "list"

\* IPCSectionSearcher().search(query, top_k): _initialize, then search, run
\* at one instant
IpcSectionSearcherSearch(has_setting, top_k) ==
    /\ rd = NoRead
    /\ LET when == [during |-> bpc, ended |-> bout.ended, reset |-> breset,
                     old |-> bold, new |-> bdocs,
                     store |-> [exists |-> dirExists, coll |-> coll]]
       IN  IF ~has_setting \/ ~dirExists
           THEN /\ rd' = [ran |-> TRUE, opened |-> FALSE, when |-> when,
                          msg |-> MsgSearcherNoDatabase, docs |-> <<>>]
                /\ coll' = coll
           ELSE /\ rd' = [ran |-> TRUE, opened |-> TRUE, when |-> when,
                          saw |-> opened_collection(coll),
                          msg |-> MsgSearcherList,
                          docs |-> similarity_search(opened_collection(coll), top_k)]
                /\ coll' = opened_collection(coll)
    /\ UNCHANGED <<precedentVars, cit, dirExists, bpc, bdocs, breset, badded,
                   bold, bprev, bout>>

\* the caller takes the answer
IpcSearchEnds ==
    /\ rd # NoRead
    /\ rd' = NoRead
    /\ UNCHANGED <<precedentVars, cit, dirExists, coll, bpc, bdocs, breset,
                   badded, bold, bprev, bout>>

-----------------------------------------------------------------------------
(* Specifications *)

Init ==
    /\ spc = "idle"
    /\ call = NoCall
    /\ request = NoRequest
    /\ requests = 0
    /\ raw_seen = <<>>
    /\ ret = NoRet
    /\ cit = NoCit
    /\ dirExists = FALSE
    /\ coll = NoColl
    /\ bpc = "idle"
    /\ bdocs = <<>>
    /\ breset = FALSE
    /\ badded = 0
    /\ bold = [exists |-> FALSE, coll |-> NoColl]
    /\ bprev = NoPrev
    /\ bout = BuilderIdle
    /\ rd = NoRead

\* the precedent tools
Next ==
    \/ \E has_key \in BOOLEAN, max_results \in 0..MaxResults :
          CallSearchLegalPrecedents(has_key, max_results)
    \/ PrecedentProviderFails
    \/ PrecedentProviderResponds
    \/ \E has_key \in BOOLEAN, court_level \in CourtLevels,
          max_results \in 0..MaxResults :
          CallSearchByCourt(has_key, court_level, max_results)
    \/ CourtProviderFails
    \/ CourtProviderResponds
    \/ PrecedentCallEnds

Spec == Init /\ [][Next]_vars

\* citation extraction applied to every title and content of Texts
CitationNext ==
    \/ \E title \in Texts, content \in Texts : ExtractCitation(title, content)
    \/ CitationTaken

SpecCitation == Init /\ [][CitationNext]_vars

\* the index: one builder, and readers at any instant between its steps
IndexNext ==
    \/ \E reset \in BOOLEAN, file_state \in {"absent", "malformed", "valid"},
          corpus \in Corpora : Setup(reset, file_state, corpus)
    \/ \E documents \in DocumentLists, reset \in BOOLEAN :
          CallCreateVectorDb(documents, reset)
    \/ CvdbReset
    \/ CvdbClient
    \/ CvdbCollection
    \/ CvdbAdd
    \/ CvdbReturn
    \/ BuilderCrashes
    \/ \E has_setting \in BOOLEAN, top_k \in 1..MaxTopK :
          SearchIpcSections(has_setting, top_k)
    \/ \E has_setting \in BOOLEAN, top_k \in 1..MaxTopK :
          IpcSectionSearcherSearch(has_setting, top_k)
    \/ IpcSearchEnds

SpecIndex == Init /\ [][IndexNext]_vars

-----------------------------------------------------------------------------
(* Notions of the specification used to state the properties *)

Range(s) == {s[i] : i \in 1..Len(s)}

TrustedDomainSet == Range(LEGAL_SOURCES)

\* least index >= from at which one of the characters of stops occurs in s,
\* or Len(s) + 1
first_of(s, from, stops) ==
    LET at == {i \in from..Len(s) : s[i] \in stops}
    IN  IF at = {} THEN Len(s) + 1 ELSE CHOOSE i \in at : \A j \in at : i <= j

\* the host of a URL: what follows "://" up to the path, query or fragment,
\* without user information and port, in lower case
host_of(url) ==
    LET marks == {i \in 1..(Len(url) - 2) : SubSeq(url, i, i + 2) = <<":", "/", "/">>}
        start == IF marks = {} THEN 1
                 ELSE (CHOOSE i \in marks : \A j \in marks : i <= j) + 3
        stop == first_of(url, start, {"/", "?", "#"})
        authority == SubSeq(url, start, stop - 1)
        ats == {i \in 1..Len(authority) : authority[i] = "@"}
        hostport == IF ats = {} THEN authority
                    ELSE SubSeq(authority,
                                (CHOOSE i \in ats : \A j \in ats : i >= j) + 1,
                                Len(authority))
    IN  lower(SubSeq(hostport, 1, first_of(hostport, 1, {":"}) - 1))

\* a host matches a domain when it is the domain or one of its subdomains
host_matches(host, domain) ==
    \/ host = domain
    \/ /\ Len(host) > Len(domain)
       /\ SubSeq(host, Len(host) - Len(domain), Len(host)) = <<".">> \o domain

\* the URL's host matches a member of TrustedDomainSet
host_trusted(url) == \E d \in TrustedDomainSet : host_matches(host_of(url), d)

HostTrustedTable == [u \in Urls |-> host_trusted(u)]

\* indices of the raw results that a trust predicate (a table over Urls) keeps
kept_by(raw_results, trusted) ==
    {i \in 1..Len(raw_results) : trusted[raw_results[i].url]}

\* of those, the first occurrence of each title
first_by_title(raw_results, trusted) ==
    {i \in kept_by(raw_results, trusted) :
        \A j \in kept_by(raw_results, trusted) :
            j < i => raw_results[j].title # raw_results[i].title}

\* the k-th smallest member of a set of numbers
nth(S, k) == CHOOSE i \in S : Cardinality({j \in S : j < i}) = k - 1

min_of(a, b) == IF a < b THEN a ELSE b

\* search_legal_precedents has returned after the provider answered
PrecedentsAnswered ==
    /\ spc = "returned"
    /\ call.op = "search_legal_precedents"
    /\ request.answer = "results"

\* search_by_court has returned after the provider answered
CourtAnswered ==
    /\ spc = "returned"
    /\ call.op = "search_by_court"
    /\ request.answer = "results"

\* the returned precedents are the first max_results raw results, in upstream
\* order, that the trust predicate keeps and whose title did not occur before
precedents_are_first_distinct(trusted) ==
    LET idx == first_by_title(raw_seen, trusted)
        n == min_of(call.max_results, Cardinality(idx))
    IN  /\ Len(ret.results) = n
        /\ \A k \in 1..n :
              /\ ret.results[k].url = raw_seen[nth(idx, k)].url
              /\ ret.results[k].title = raw_seen[nth(idx, k)].title
              /\ ret.results[k].summary = raw_seen[nth(idx, k)].content

\* the returned court results are the first max_results raw results, in
\* upstream order, that the trust predicate keeps, with the provider's score
court_results_are_first(trusted) ==
    LET idx == kept_by(raw_seen, trusted)
        n == min_of(call.max_results, Cardinality(idx))
    IN  /\ Len(ret.results) = n
        /\ \A k \in 1..n :
              /\ ret.results[k].url = raw_seen[nth(idx, k)].url
              /\ ret.results[k].title = raw_seen[nth(idx, k)].title
              /\ ret.results[k].relevance_score = raw_seen[nth(idx, k)].score

-----------------------------------------------------------------------------
(* Properties *)

\* C1: every candidate returned by search_legal_precedents has a source that
\* is a member of TrustedDomainSet (never the fallback "Unknown").
C1_SourceInTrustedDomainSet ==
    PrecedentsAnswered =>
        \A k \in 1..Len(ret.results) : ret.results[k].source \in TrustedDomainSet

\* C2: search_legal_precedents and search_by_court return a raw result only
\* if the host of its URL matches a member of TrustedDomainSet.
C2_ReturnedHostsAreTrusted ==
    (PrecedentsAnswered \/ CourtAnswered) =>
        \A k \in 1..Len(ret.results) : HostTrustedTable[ret.results[k].url]

\* C3: search_legal_precedents returns at most max_results candidates, for
\* every max_results, 0 included.
C3_AtMostMaxResults ==
    PrecedentsAnswered => Len(ret.results) <= call.max_results

\* C4: search_legal_precedents never returns two candidates with the same
\* title, and where a returned title has raw results on trusted hosts, the
\* candidate kept for it is the first of these.
C4_DistinctTitlesFirstTrustedKept ==
    PrecedentsAnswered =>
        /\ \A j, k \in 1..Len(ret.results) :
              j # k => ret.results[j].title # ret.results[k].title
        /\ \A k \in 1..Len(ret.results) :
              \A i \in first_by_title(raw_seen, HostTrustedTable) :
                  raw_seen[i].title = ret.results[k].title
                      => raw_seen[i].url = ret.results[k].url

\* C4, first half alone: no two returned candidates share a title.
TitlesAreDistinct ==
    PrecedentsAnswered =>
        \A j, k \in 1..Len(ret.results) :
            j # k => ret.results[j].title # ret.results[k].title

\* C4, second half with "trusted" read as "kept by _is_legal_source": the
\* candidate kept for a title is the first raw result with that title that
\* the filter of the code keeps.
FirstAcceptedOccurrenceKept ==
    PrecedentsAnswered =>
        \A k \in 1..Len(ret.results) :
            \E i \in first_by_title(raw_seen, LegalSourceTable) :
                /\ raw_seen[i].title = ret.results[k].title
                /\ raw_seen[i].url = ret.results[k].url

\* C5: for max_results >= 1, search_legal_precedents returns exactly the first
\* max_results raw results, in upstream order, among those whose host is
\* trusted and whose title did not occur before; all of them trusted.
C5_FirstMaxResultsOfTrustedDistinct ==
    (PrecedentsAnswered /\ call.max_results >= 1) =>
        precedents_are_first_distinct(HostTrustedTable)

\* C5 with "trusted" read as "kept by _is_legal_source": order, truncation
\* and length are as stated.
FirstMaxResultsOfAcceptedDistinct ==
    (PrecedentsAnswered /\ call.max_results >= 1) =>
        precedents_are_first_distinct(LegalSourceTable)

\* C10: search_by_court returns the first max_results raw results whose host
\* is trusted, in upstream order, without title deduplication, each with the
\* provider's relevance score.
C10_CourtFirstMaxResultsTrusted ==
    CourtAnswered => court_results_are_first(HostTrustedTable)

\* C10 with "trusted" read as "kept by _is_legal_source".
CourtFirstMaxResultsAccepted ==
    CourtAnswered => court_results_are_first(LegalSourceTable)


\* the priority order of the citation patterns: "(YYYY) N SCC N",
\* "AIR YYYY SC N", "YYYY (N) <court> N", "W.P. No. N of YYYY"
PriorityOrder == <<PatScc, PatAir, PatYearVol, PatWp>>

\* the patterns of PriorityOrder that match a text
matching(text) ==
    {p \in 1..Len(PriorityOrder) : re_search(PriorityOrder[p], text) # NoMatch}

\* the match of the highest-priority pattern that matches a text
best_match(text) ==
    re_search(PriorityOrder[CHOOSE p \in matching(text) :
                                \A q \in matching(text) : p <= q], text)

\* C6: the citation is the match of the highest-priority pattern that matches
\* the title if any pattern matches the title, otherwise the match of the
\* highest-priority pattern that matches the content, otherwise absent.
C6_TitleFirstThenPriority ==
    cit.ran =>
        cit.citation =
            IF matching(cit.title) # {} THEN best_match(cit.title)
            ELSE IF matching(cit.content) # {} THEN best_match(cit.content)
            ELSE NoMatch

\* C6 witness: a title in which the AIR citation comes first and the SCC
\* citation later, with a content that holds a citation too; the SCC citation
\* of the title is returned.
C6_LowerPriorityEarlierInTitle ==
    /\ cit.ran
    /\ cit.title = TxtAirThenScc
    /\ cit.content = TxtWp
    /\ cit.citation = <<"(", "2", "0", "2", "4", ")", " ", "5", " ", "S", "C", "C", " ", "8">>

\* the example of the specification: "Ref: (2023) 4 SCC 221" gives
\* "(2023) 4 SCC 221", and a text that no pattern matches gives no citation
CitationExamples ==
    /\ (cit.ran /\ cit.title = TxtRef) => cit.citation = SubSeq(TxtRef, 6, Len(TxtRef))
    /\ (cit.ran /\ cit.title \in {TxtNone, TxtEmpty}
               /\ cit.content \in {TxtNone, TxtEmpty}) => cit.citation = NoMatch

sees_index(read, exists, docs) ==
    IF exists THEN read.opened /\ read.saw.docs = docs
    ELSE read.msg \in {MsgNoDatabase, MsgSearcherNoDatabase}

\* C8: a statute search run while a build with reset = true is in progress,
\* or after such a build crashed, finds the complete old index or the
\* complete new index.
C8_ReaderSeesOldOrNewIndex ==
    (/\ rd.ran
     /\ rd.msg # MsgNoSetting
     /\ rd.when.reset
     /\ \/ rd.when.during \in {"reset", "client", "collection", "add", "done"}
        \/ rd.when.ended = "crashed") =>
        \/ sees_index(rd, rd.when.old.exists, rd.when.old.coll.docs)
        \/ sees_index(rd, TRUE, rd.when.new)

\* search_legal_precedents has returned after client.search raised
PrecedentsProviderFailed ==
    /\ spc = "returned"
    /\ call.op = "search_legal_precedents"
    /\ request.answer = "raised"

\* C9: after a provider failure exactly one request was issued, no candidate
\* is returned and the message is the provider-error message, which no
\* answered search returns; without the credential the configuration error
\* is returned and no request is issued.
C9_ProviderFailureAndMissingCredential ==
    /\ PrecedentsProviderFailed =>
          /\ requests = 1
          /\ ret.results = <<>>
          /\ ret.msg = MsgUpstream
          /\ ret.msg # precedent_return(<<>>, call.max_results).msg
          /\ ret.msg \notin {MsgNone, MsgFound, MsgNoKey}
    /\ PrecedentsAnswered => ret.msg \in {MsgNone, MsgFound}
    /\ (spc = "returned" /\ call.op = "search_legal_precedents" /\ ~call.has_key) =>
          /\ requests = 0
          /\ request = NoRequest
          /\ ret.results = <<>>
          /\ ret.msg = MsgNoKey

\* C9 witness: the provider failed on the one request of a call.
C9_ProviderFailed ==
    PrecedentsProviderFailed /\ request.sent /\ call.max_results > 0


\* a persisted index exists: the directory is there and holds the collection
index_persisted(store) == store.exists /\ store.coll.present

\* C11: a statute search run with the location configured, at an instant
\* when no persisted index exists there (directory absent, or present without
\* the collection), fails with NotFound: it returns no documents and neither
\* the "no results" message nor a result list.
C11_NoIndexGivesNotFound ==
    (/\ rd.ran
     /\ rd.msg # MsgNoSetting
     /\ ~index_persisted(rd.when.store)) =>
        /\ rd.msg \in {MsgNoDatabase, MsgSearcherNoDatabase}
        /\ rd.docs = <<>>

\* C11 with the directory absent: both searches report that the database
\* was not found.
AbsentDirectoryGivesNotFound ==
    (rd.ran /\ rd.msg # MsgNoSetting /\ ~rd.when.store.exists) =>
        /\ rd.msg \in {MsgNoDatabase, MsgSearcherNoDatabase}
        /\ rd.docs = <<>>

====
